---------------------------- MODULE Spec2Model ----------------------------
(***************************************************************************)
(* A model of the ArgoCD MCP server (argocd_mcp_server): the remote API    *)
(* client, the tool catalog and the tool dispatcher of the two transports  *)
(* (stdio: server.py, HTTP: http_server.py), and the lifecycle of the two  *)
(* processes.                                                              *)
(*                                                                         *)
(* JSON and Python values are tagged records:                              *)
(*   [t |-> "null"]               None / null                              *)
(*   [t |-> "bool", v |-> b]      True / False                             *)
(*   [t |-> "int",  v |-> n]      an integer                               *)
(*   [t |-> "str",  v |-> s]      a string                                 *)
(*   [t |-> "arr",  v |-> seq]    a list                                   *)
(*   [t |-> "obj",  v |-> f]      a dict, f a function from keys to values *)
(* The result of evaluating Python code is Ok(value) or Raise(exc, msg).   *)
(***************************************************************************)
EXTENDS Integers, Sequences, FiniteSets, TLC

VARIABLES
    env,            \* the process environment (os.environ), fixed at start
    stdio_pc,       \* stdio transport: "start", "serving" or "exited"
    stdio_client,   \* the client captured by create_server's closures
    http_pc,        \* HTTP transport: "imported", "serving" or "failed"
    argocd_client,  \* http_server.argocd_client, the module global
    last,           \* the last operation handled, with what it sent and returned
    constructed,    \* how many times get_client has run ArgoCDClient(config)
    pending         \* the tools/call awaiting the remote's answer, if any

vars == <<env, stdio_pc, stdio_client, http_pc, argocd_client, last,
          constructed, pending>>

---------------------------------------------------------------------------
(* Bounds of the model.                                                    *)

\* The longest list (applications, history entries, projects) a remote
\* response carries.
MaxItems == 2

---------------------------------------------------------------------------
(* Values.                                                                 *)

Null == [t |-> "null"]
Bool(b) == [t |-> "bool", v |-> b]
Num(n) == [t |-> "int", v |-> n]
Str(s) == [t |-> "str", v |-> s]
Arr(s) == [t |-> "arr", v |-> s]
Obj(f) == [t |-> "obj", v |-> f]
EmptyObj == Obj(<<>>)
EmptyArr == Arr(<<>>)

Ok(v) == [ok |-> TRUE, val |-> v]
Raise(e, m) == [ok |-> FALSE, exc |-> e, msg |-> m]

\* Python's name for the type of a value, as it appears in error messages.
PyTypeName(v) ==
    CASE v.t = "null" -> "NoneType"
      [] v.t = "bool" -> "bool"
      [] v.t = "int" -> "int"
      [] v.t = "str" -> "str"
      [] v.t = "arr" -> "list"
      [] v.t = "obj" -> "dict"

\* bool(v): the truth value `if v:` and `not v` test.
Truthy(v) ==
    CASE v.t = "null" -> FALSE
      [] v.t = "bool" -> v.v
      [] v.t = "int" -> v.v # 0
      [] v.t = "str" -> v.v # ""
      [] v.t = "arr" -> Len(v.v) > 0
      [] v.t = "obj" -> DOMAIN v.v # {}

\* str(v) as an f-string formats it.  Lists and dicts are never formatted
\* by the runs of this model.
PyStr(v) ==
    CASE v.t = "null" -> "None"
      [] v.t = "bool" -> IF v.v THEN "True" ELSE "False"
      [] v.t = "int" -> ToString(v.v)
      [] v.t = "str" -> v.v

\* d.get(key, default): a method of dict only.
PyGet(d, key, default) ==
    IF d.t # "obj"
    THEN Raise("AttributeError",
               "'" \o PyTypeName(d) \o "' object has no attribute 'get'")
    ELSE Ok(IF key \in DOMAIN d.v THEN d.v[key] ELSE default)

\* d[key] with a string key.
PyItem(d, key) ==
    CASE d.t = "obj" ->
           IF key \in DOMAIN d.v THEN Ok(d.v[key])
           ELSE Raise("KeyError", "'" \o key \o "'")
      [] d.t = "arr" ->
           Raise("TypeError", "list indices must be integers or slices, not str")
      [] d.t = "str" ->
           Raise("TypeError", "string indices must be integers, not 'str'")
      [] OTHER ->
           Raise("TypeError", "'" \o PyTypeName(d) \o "' object is not subscriptable")

---------------------------------------------------------------------------
(* json.dumps(v, indent=2).  Python keeps a dict's keys in the order of    *)
(* the parsed document; the model writes them in the order of KeyOrder.    *)

KeyOrder ==
    <<"metadata", "spec", "status", "name", "namespace", "source", "repoURL",
      "path", "targetRevision", "sync", "health", "history", "revision",
      "deployedAt", "items", "manifests", "phase", "message">>

RECURSIVE PadStr(_)
PadStr(n) == IF n = 0 THEN "" ELSE " " \o PadStr(n - 1)

RECURSIVE JoinLines(_)
JoinLines(parts) ==
    IF Len(parts) = 0 THEN ""
    ELSE IF Len(parts) = 1 THEN parts[1]
    ELSE parts[1] \o ",\n" \o JoinLines(Tail(parts))

RECURSIVE KeysOf(_, _)
KeysOf(f, i) ==
    IF i > Len(KeyOrder) THEN <<>>
    ELSE (IF KeyOrder[i] \in DOMAIN f THEN <<KeyOrder[i]>> ELSE <<>>)
         \o KeysOf(f, i + 1)

RECURSIVE json_dumps(_, _)
json_dumps(v, ind) ==
    CASE v.t = "null" -> "null"
      [] v.t = "bool" -> IF v.v THEN "true" ELSE "false"
      [] v.t = "int" -> ToString(v.v)
      [] v.t = "str" -> "\"" \o v.v \o "\""
      [] v.t = "arr" ->
           IF Len(v.v) = 0 THEN "[]"
           ELSE "[\n"
                \o JoinLines([i \in 1..Len(v.v) |->
                      PadStr(ind + 2) \o json_dumps(v.v[i], ind + 2)])
                \o "\n" \o PadStr(ind) \o "]"
      [] v.t = "obj" ->
           LET ks == KeysOf(v.v, 1) IN
           IF Len(ks) = 0 THEN "{}"
           ELSE "{\n"
                \o JoinLines([i \in 1..Len(ks) |->
                      PadStr(ind + 2) \o "\"" \o ks[i] \o "\": "
                      \o json_dumps(v.v[ks[i]], ind + 2)])
                \o "\n" \o PadStr(ind) \o "}"

---------------------------------------------------------------------------
(* Sequencing.  `x = <expr>; <rest>` of the Python is written              *)
(*     Only({ <rest> : x \in {<expr>} })                                   *)
(* so that the expression is evaluated once, whatever the number of uses   *)
(* of x in the rest.                                                       *)

\* The element of a singleton set.
Only(S) == CHOOSE y \in S : TRUE

\* What a dispatcher hands back: its result and the requests it sent.
Done(res, sent) == [res |-> res, sent |-> sent]

\* r.get(key, default) on the value of the result r, a raise of r passing
\* through.
ThenGet(r, key, default) == IF r.ok THEN PyGet(r.val, key, default) ELSE r

\* The first of a sequence of results, in evaluation order, that raised.
FirstRaise(steps) ==
    steps[CHOOSE i \in 1..Len(steps) :
            ~steps[i].ok /\ \A j \in 1..(i - 1) : steps[j].ok]

---------------------------------------------------------------------------
(* client.py: the configuration and the remote API client.                 *)

\* os.getenv(name): None when the variable is unset.
getenv(e, name) == e[name]

\* str.lower() on the values ARGOCD_INSECURE and str(bool) take here.
Lower(s) ==
    CASE s = "True" -> "true"
      [] s = "TRUE" -> "true"
      [] s = "False" -> "false"
      [] OTHER -> s

\* A from_env that checks ARGOCD_SERVER only, an unset token reaching the
\* Authorization header as str(None).
from_env_unchecked_token(e) ==
    IF ~Truthy(getenv(e, "ARGOCD_SERVER"))
    THEN Raise("ValueError", "ARGOCD_SERVER environment variable is required")
    ELSE Ok([server |-> getenv(e, "ARGOCD_SERVER").v,
             token |-> PyStr(getenv(e, "ARGOCD_TOKEN")),
             insecure |-> FALSE])

\* ArgoCDConfig.from_env
from_env(e) ==
    LET server == getenv(e, "ARGOCD_SERVER")
        token == getenv(e, "ARGOCD_TOKEN")
        raw == getenv(e, "ARGOCD_INSECURE")
        insecure == Lower(IF raw = Null THEN "false" ELSE raw.v) = "true"
    IN  IF ~Truthy(server)
        THEN Raise("ValueError", "ARGOCD_SERVER environment variable is required")
        ELSE IF ~Truthy(token)
        THEN Raise("ValueError", "ARGOCD_TOKEN environment variable is required")
        ELSE Ok([server |-> server.v, token |-> token.v, insecure |-> insecure])

\* ArgoCDClient.__init__
ArgoCDClient(config) ==
    [config |-> config,
     base_url |-> "https://" \o config.server \o "/api/v1",
     headers |-> [Authorization |-> "Bearer " \o config.token,
                  ContentType |-> "application/json"],
     verify |-> ~config.insecure]

\* The timeout of one request, in seconds.
RequestTimeout == 30

\* What the remote controller does with one request: it is not reached, it
\* does not answer in time, or it answers with a status and a body.
NotJson == [t |-> "notjson"]
ConnectFailure == [kind |-> "connect"]
Timeout == [kind |-> "timeout"]
Response(status, body) == [kind |-> "response", status |-> status, body |-> body]

\* httpx.Response.raise_for_status: the message of the HTTPStatusError.
StatusMessage(status, url) ==
    (CASE status = 302 -> "Redirect response '302 Found'"
       [] status = 404 -> "Client error '404 Not Found'"
       [] status = 500 -> "Server error '500 Internal Server Error'")
    \o " for url '" \o url \o "'"

\* The absence of a params= or json= argument.
NoArg == [t |-> "absent"]

\* A _request with timeout=None: the wait for the remote is not bounded.
client_request_without_timeout(self, method, path, params, json, o) ==
    Done(CASE o.kind = "connect" ->
                Raise("ConnectError", "All connection attempts failed")
           [] o.kind = "timeout" -> Raise("ReadTimeout", "")
           [] o.kind = "response" ->
                IF ~(200 <= o.status /\ o.status <= 299)
                THEN Raise("HTTPStatusError",
                           StatusMessage(o.status, self.base_url \o path))
                ELSE IF o.body = NotJson
                THEN Raise("JSONDecodeError",
                           "Expecting value: line 1 column 1 (char 0)")
                ELSE Ok(o.body),
         <<[method |-> method, url |-> self.base_url \o path, path |-> path,
            headers |-> self.headers, params |-> params, json |-> json,
            timeout |-> Null, verify |-> self.verify]>>)

\* A _request that sends the request a second time when the first attempt
\* failed.
client_request_retrying(self, method, path, params, json, o) ==
    Done(CASE o.kind = "connect" ->
                Raise("ConnectError", "All connection attempts failed")
           [] o.kind = "timeout" -> Raise("ReadTimeout", "")
           [] o.kind = "response" ->
                IF ~(200 <= o.status /\ o.status <= 299)
                THEN Raise("HTTPStatusError",
                           StatusMessage(o.status, self.base_url \o path))
                ELSE IF o.body = NotJson
                THEN Raise("JSONDecodeError",
                           "Expecting value: line 1 column 1 (char 0)")
                ELSE Ok(o.body),
         [i \in 1..(IF o.kind = "response" /\ o.status = 200 THEN 1 ELSE 2) |->
            [method |-> method, url |-> self.base_url \o path, path |-> path,
             headers |-> self.headers, params |-> params, json |-> json,
             timeout |-> Num(RequestTimeout), verify |-> self.verify]])

\* ArgoCDClient._request: one HTTP request, answered by outcome o.
client_request(self, method, path, params, json, o) ==
    Done(CASE o.kind = "connect" ->
                Raise("ConnectError", "All connection attempts failed")
           [] o.kind = "timeout" -> Raise("ReadTimeout", "")
           [] o.kind = "response" ->
                IF ~(200 <= o.status /\ o.status <= 299)
                THEN Raise("HTTPStatusError",
                           StatusMessage(o.status, self.base_url \o path))
                ELSE IF o.body = NotJson
                THEN Raise("JSONDecodeError",
                           "Expecting value: line 1 column 1 (char 0)")
                ELSE Ok(o.body),
         <<[method |-> method, url |-> self.base_url \o path, path |-> path,
            headers |-> self.headers, params |-> params, json |-> json,
            timeout |-> Num(RequestTimeout), verify |-> self.verify]>>)

\* ArgoCDClient.list_applications
client_list_applications(self, project, selector, o) ==
    Only({ IF ~r.res.ok THEN r
           ELSE Done(PyGet(r.res.val, "items", EmptyArr), r.sent)
           : r \in {client_request(self, "GET", "/applications",
                       Obj((IF Truthy(project) THEN "project" :> project
                            ELSE <<>>)
                           @@ (IF Truthy(selector) THEN "selector" :> selector
                               ELSE <<>>)),
                       NoArg, o)} })

\* ArgoCDClient.get_application
client_get_application(self, name, o) ==
    client_request(self, "GET", "/applications/" \o PyStr(name), NoArg, NoArg, o)

\* A sync_application whose payload carries the revision whatever it is.
client_sync_application_any_revision(self, name, prune, dry_run, revision, o) ==
    client_request(self, "POST", "/applications/" \o PyStr(name) \o "/sync",
                   NoArg,
                   Obj(("prune" :> prune) @@ ("dryRun" :> dry_run)
                       @@ ("revision" :> revision)),
                   o)

\* ArgoCDClient.sync_application
client_sync_application(self, name, prune, dry_run, revision, o) ==
    client_request(self, "POST", "/applications/" \o PyStr(name) \o "/sync",
                   NoArg,
                   Obj(("prune" :> prune) @@ ("dryRun" :> dry_run)
                       @@ (IF Truthy(revision) THEN "revision" :> revision
                           ELSE <<>>)),
                   o)

\* ArgoCDClient.get_application_manifests
client_get_application_manifests(self, name, o) ==
    client_request(self, "GET", "/applications/" \o PyStr(name) \o "/manifests",
                   NoArg, NoArg, o)

\* A get_sync_history that subscripts, app["status"]["history"], where the
\* code uses .get with defaults.
client_get_sync_history_subscript(self, name, o) ==
    Only({ IF ~r.res.ok THEN r
           ELSE Only({ IF ~status.ok THEN Done(status, r.sent)
                       ELSE Done(PyItem(status.val, "history"), r.sent)
                       : status \in {PyItem(r.res.val, "status")} })
           : r \in {client_request(self, "GET", "/applications/" \o PyStr(name),
                                   NoArg, NoArg, o)} })

\* ArgoCDClient.get_sync_history
client_get_sync_history(self, name, o) ==
    Only({ IF ~r.res.ok THEN r
           ELSE Done(ThenGet(PyGet(r.res.val, "status", EmptyObj),
                             "history", EmptyArr), r.sent)
           : r \in {client_get_application(self, name, o)} })

\* ArgoCDClient.rollback_application
client_rollback_application(self, name, revision, o) ==
    client_request(self, "POST", "/applications/" \o PyStr(name) \o "/rollback",
                   NoArg, Obj("revision" :> revision), o)

\* ArgoCDClient.delete_application
client_delete_application(self, name, cascade, o) ==
    client_request(self, "DELETE", "/applications/" \o PyStr(name),
                   Obj("cascade" :> Str(Lower(PyStr(cascade)))), NoArg, o)

\* ArgoCDClient.list_projects
client_list_projects(self, o) ==
    Only({ IF ~r.res.ok THEN r
           ELSE Done(PyGet(r.res.val, "items", EmptyArr), r.sent)
           : r \in {client_request(self, "GET", "/projects", NoArg, NoArg, o)} })

\* ArgoCDClient.get_cluster_info
client_get_cluster_info(self, o) ==
    client_request(self, "GET", "/clusters", NoArg, NoArg, o)

---------------------------------------------------------------------------
(* Helpers of the dispatchers' Python.                                     *)

\* len(v)
PyLen(v) ==
    CASE v.t = "arr" -> Ok(Len(v.v))
      [] v.t = "str" -> Ok(Len(v.v))
      [] v.t = "obj" -> Ok(Cardinality(DOMAIN v.v))
      [] OTHER -> Raise("TypeError",
                        "object of type '" \o PyTypeName(v) \o "' has no len()")

\* The elements `for x in v` visits.
RECURSIVE Chars(_, _)
Chars(str, i) ==
    IF i > Len(str) THEN <<>>
    ELSE <<Str(SubSeq(str, i, i))>> \o Chars(str, i + 1)

PyIter(v) ==
    CASE v.t = "arr" -> v.v
      [] v.t = "str" -> Chars(v.v, 1)
      [] v.t = "obj" -> [i \in 1..Len(KeysOf(v.v, 1)) |-> Str(KeysOf(v.v, 1)[i])]

\* One text block of a tool result: TextContent(type="text", text=s).
TextBlock(s) == [type |-> "text", text |-> s]

---------------------------------------------------------------------------
(* server.py: the stdio transport.                                         *)

\* A summary without its Path line.
SummaryText_without_path(f) ==
    "Application: " \o PyStr(f[4].val) \o "\n"
    \o "Namespace: " \o PyStr(f[5].val) \o "\n"
    \o "Repository: " \o PyStr(f[7].val) \o "\n"
    \o "Revision: " \o PyStr(f[9].val) \o "\n"
    \o "Sync Status: " \o PyStr(f[11].val) \o "\n"
    \o "Health Status: " \o PyStr(f[13].val) \o "\n"

\* format_application_summary, the f-string it returns.  The fields are in
\* the order of `steps` below.
SummaryText(f) ==
    "Application: " \o PyStr(f[4].val) \o "\n"
    \o "Namespace: " \o PyStr(f[5].val) \o "\n"
    \o "Repository: " \o PyStr(f[7].val) \o "\n"
    \o "Path: " \o PyStr(f[8].val) \o "\n"
    \o "Revision: " \o PyStr(f[9].val) \o "\n"
    \o "Sync Status: " \o PyStr(f[11].val) \o "\n"
    \o "Health Status: " \o PyStr(f[13].val) \o "\n"

\* format_application_summary: the .get calls in the order Python evaluates
\* them (metadata, spec, status, name, namespace, source, repo_url, path,
\* target_revision, sync and its status, health and its status).
format_application_summary(app) ==
    Only({ Only({ Only({ IF \E i \in 1..Len(steps) : ~steps[i].ok
                         THEN FirstRaise(steps)
                         ELSE Ok(SummaryText(steps))
                         : steps \in {<<metadata, spec, status, name, namespace,
                                        source,
                                        ThenGet(source, "repoURL", Str("unknown")),
                                        ThenGet(source, "path", Str("unknown")),
                                        ThenGet(source, "targetRevision",
                                                Str("unknown")),
                                        sync,
                                        ThenGet(sync, "status", Str("unknown")),
                                        health,
                                        ThenGet(health, "status", Str("unknown"))>>} })
                  : name \in {ThenGet(metadata, "name", Str("unknown"))},
                    namespace \in {ThenGet(metadata, "namespace", Str("unknown"))},
                    source \in {ThenGet(spec, "source", EmptyObj)},
                    sync \in {ThenGet(status, "sync", EmptyObj)},
                    health \in {ThenGet(status, "health", EmptyObj)} })
           : metadata \in {PyGet(app, "metadata", EmptyObj)},
             spec \in {PyGet(app, "spec", EmptyObj)},
             status \in {PyGet(app, "status", EmptyObj)} })

\* call_tool, the loop of its list_applications branch over apps[i..]:
\* summary += format_application_summary(app); summary += "\n"
RECURSIVE AppsLoop(_, _, _)
AppsLoop(apps, i, summary) ==
    IF i > Len(apps) THEN Ok(summary)
    ELSE Only({ IF ~f.ok THEN f
                ELSE AppsLoop(apps, i + 1, summary \o f.val \o "\n")
                : f \in {format_application_summary(apps[i])} })

\* call_tool, the loop of its get_sync_history branch over history[i..].
RECURSIVE HistoryLoop(_, _, _)
HistoryLoop(history, i, summary) ==
    IF i > Len(history) THEN Ok(summary)
    ELSE Only({ IF ~revision.ok THEN revision
                ELSE HistoryLoop(history, i + 1,
                        summary \o "Revision: " \o PyStr(revision.val) \o "\n"
                        \o "Deployed At: " \o PyStr(deployed_at.val) \o "\n\n")
                : revision \in {PyGet(history[i], "revision", Str("unknown"))},
                  deployed_at \in {PyGet(history[i], "deployedAt",
                                         Str("unknown"))} })

\* call_tool, the loop of its list_projects branch over projects[i..].
RECURSIVE ProjectsLoop(_, _, _)
ProjectsLoop(projects, i, summary) ==
    IF i > Len(projects) THEN Ok(summary)
    ELSE Only({ IF ~name.ok THEN name
                ELSE ProjectsLoop(projects, i + 1,
                                  summary \o "- " \o PyStr(name.val) \o "\n")
                : name \in {ThenGet(PyGet(projects[i], "metadata", EmptyObj),
                                    "name", Str("unknown"))} })

\* call_tool, what follows `apps = await client.list_applications(...)`.
ListApplicationsText(r) ==
    IF ~r.res.ok THEN r
    ELSE IF ~Truthy(r.res.val)
    THEN Done(Ok(<<TextBlock("No applications found")>>), r.sent)
    ELSE Only({ IF ~n.ok THEN Done(n, r.sent)
                ELSE Only({ IF ~summary.ok THEN Done(summary, r.sent)
                            ELSE Done(Ok(<<TextBlock(summary.val)>>), r.sent)
                            : summary \in
                                {AppsLoop(PyIter(r.res.val), 1,
                                    "Found " \o ToString(n.val)
                                    \o " application(s):\n\n")} })
                : n \in {PyLen(r.res.val)} })

\* call_tool, what follows `history = await client.get_sync_history(...)`.
SyncHistoryText(r, nm) ==
    IF ~r.res.ok THEN r
    ELSE IF ~Truthy(r.res.val)
    THEN Done(Ok(<<TextBlock("No sync history found")>>), r.sent)
    ELSE Only({ IF ~summary.ok THEN Done(summary, r.sent)
                ELSE Done(Ok(<<TextBlock(summary.val)>>), r.sent)
                : summary \in
                    {HistoryLoop(PyIter(r.res.val), 1,
                        "Sync history for " \o PyStr(nm) \o ":\n\n")} })

\* call_tool, what follows `projects = await client.list_projects()`.
ListProjectsText(r) ==
    IF ~r.res.ok THEN r
    ELSE IF ~Truthy(r.res.val)
    THEN Done(Ok(<<TextBlock("No projects found")>>), r.sent)
    ELSE Only({ IF ~n.ok THEN Done(n, r.sent)
                ELSE Only({ IF ~summary.ok THEN Done(summary, r.sent)
                            ELSE Done(Ok(<<TextBlock(summary.val)>>), r.sent)
                            : summary \in
                                {ProjectsLoop(PyIter(r.res.val), 1,
                                    "Found " \o ToString(n.val)
                                    \o " project(s):\n\n")} })
                : n \in {PyLen(r.res.val)} })

\* call_tool, its else branch: no tool of that name.
unknown_tool(name) ==
    Done(Ok(<<TextBlock("Unknown tool: " \o PyStr(name))>>), <<>>)

\* call_tool, the body of its try block.  The result is the list of text
\* blocks returned or the exception raised, with the requests sent.
call_tool_try(client, name, arguments, o) ==
    CASE name = Str("list_applications") ->
           Only({ IF ~project.ok THEN Done(project, <<>>)
                  ELSE Only({ ListApplicationsText(r)
                              : r \in {client_list_applications(client,
                                          project.val, selector.val, o)} })
                  : project \in {PyGet(arguments, "project", Null)},
                    selector \in {PyGet(arguments, "selector", Null)} })
      [] name = Str("get_application") ->
           Only({ IF ~nm.ok THEN Done(nm, <<>>)
                  ELSE Only({ IF ~r.res.ok THEN r
                              ELSE Done(Ok(<<TextBlock(json_dumps(r.res.val, 0))>>),
                                        r.sent)
                              : r \in {client_get_application(client, nm.val, o)} })
                  : nm \in {PyItem(arguments, "name")} })
      [] name = Str("sync_application") ->
           Only({ IF ~nm.ok THEN Done(nm, <<>>)
                  ELSE Only({ IF ~r.res.ok THEN r
                              ELSE Done(Ok(<<TextBlock(
                                      "Sync initiated for " \o PyStr(nm.val)
                                      \o "\n\n" \o json_dumps(r.res.val, 0))>>),
                                    r.sent)
                              : r \in {client_sync_application(client, nm.val,
                                          PyGet(arguments, "prune", Bool(FALSE)).val,
                                          PyGet(arguments, "dry_run", Bool(FALSE)).val,
                                          PyGet(arguments, "revision", Null).val,
                                          o)} })
                  : nm \in {PyItem(arguments, "name")} })
      [] name = Str("get_application_manifests") ->
           Only({ IF ~nm.ok THEN Done(nm, <<>>)
                  ELSE Only({ IF ~r.res.ok THEN r
                              ELSE Done(Ok(<<TextBlock(json_dumps(r.res.val, 0))>>),
                                        r.sent)
                              : r \in {client_get_application_manifests(client,
                                          nm.val, o)} })
                  : nm \in {PyItem(arguments, "name")} })
      [] name = Str("get_sync_history") ->
           Only({ IF ~nm.ok THEN Done(nm, <<>>)
                  ELSE Only({ SyncHistoryText(r, nm.val)
                              : r \in {client_get_sync_history(client, nm.val, o)} })
                  : nm \in {PyItem(arguments, "name")} })
      [] name = Str("rollback_application") ->
           Only({ IF ~nm.ok THEN Done(nm, <<>>)
                  ELSE IF ~revision.ok THEN Done(revision, <<>>)
                  ELSE Only({ IF ~r.res.ok THEN r
                              ELSE Done(Ok(<<TextBlock(
                                      "Rollback initiated for " \o PyStr(nm.val)
                                      \o " to revision " \o PyStr(revision.val)
                                      \o "\n\n" \o json_dumps(r.res.val, 0))>>),
                                    r.sent)
                              : r \in {client_rollback_application(client, nm.val,
                                          revision.val, o)} })
                  : nm \in {PyItem(arguments, "name")},
                    revision \in {PyItem(arguments, "revision")} })
      [] name = Str("list_projects") ->
           Only({ ListProjectsText(r) : r \in {client_list_projects(client, o)} })
      [] OTHER -> unknown_tool(name)

\* A call_tool with one branch more, which hands delete_application to the
\* client.
call_tool_exposing_delete(client, name, arguments, o) ==
    IF name = Str("delete_application")
    THEN Only({ IF ~nm.ok
                THEN Done(Ok(<<TextBlock("Error: " \o nm.msg)>>), <<>>)
                ELSE Only({ IF ~r.res.ok
                            THEN Done(Ok(<<TextBlock("Error: " \o r.res.msg)>>),
                                      r.sent)
                            ELSE Done(Ok(<<TextBlock(json_dumps(r.res.val, 0))>>),
                                      r.sent)
                            : r \in {client_delete_application(client, nm.val,
                                        Bool(TRUE), o)} })
                : nm \in {PyItem(arguments, "name")} })
    ELSE Only({ IF r.res.ok THEN r
                ELSE Done(Ok(<<TextBlock("Error: " \o r.res.msg)>>), r.sent)
                : r \in {call_tool_try(client, name, arguments, o)} })

\* call_tool: the try block and its `except Exception`.
call_tool(client, name, arguments, o) ==
    Only({ IF r.res.ok THEN r
           ELSE Done(Ok(<<TextBlock("Error: " \o r.res.msg)>>), r.sent)
           : r \in {call_tool_try(client, name, arguments, o)} })

\* list_tools: the catalog of the stdio transport.
list_tools ==
    <<[name |-> "list_applications",
       description |-> "List all ArgoCD applications with optional filtering by project or selector",
       inputSchema |->
         [type |-> "object",
          properties |->
            [project |-> [type |-> "string",
                          description |-> "Filter applications by project name"],
             selector |-> [type |-> "string",
                           description |-> "Filter applications by label selector (e.g., 'app=myapp')"]]]],
      [name |-> "get_application",
       description |-> "Get detailed information about a specific ArgoCD application",
       inputSchema |->
         [type |-> "object",
          properties |->
            [name |-> [type |-> "string", description |-> "Application name"]],
          required |-> <<"name">>]],
      [name |-> "sync_application",
       description |-> "Trigger synchronization of an ArgoCD application",
       inputSchema |->
         [type |-> "object",
          properties |->
            [name |-> [type |-> "string", description |-> "Application name"],
             prune |-> [type |-> "boolean",
                        description |-> "Prune resources that are no longer in git",
                        default |-> FALSE],
             dry_run |-> [type |-> "boolean",
                          description |-> "Preview sync without applying changes",
                          default |-> FALSE],
             revision |-> [type |-> "string",
                           description |-> "Specific git revision to sync to"]],
          required |-> <<"name">>]],
      [name |-> "get_application_manifests",
       description |-> "Get the Kubernetes manifests for an application",
       inputSchema |->
         [type |-> "object",
          properties |->
            [name |-> [type |-> "string", description |-> "Application name"]],
          required |-> <<"name">>]],
      [name |-> "get_sync_history",
       description |-> "Get synchronization history for an application",
       inputSchema |->
         [type |-> "object",
          properties |->
            [name |-> [type |-> "string", description |-> "Application name"]],
          required |-> <<"name">>]],
      [name |-> "rollback_application",
       description |-> "Rollback an application to a previous revision",
       inputSchema |->
         [type |-> "object",
          properties |->
            [name |-> [type |-> "string", description |-> "Application name"],
             revision |-> [type |-> "string",
                           description |-> "Git revision to rollback to"]],
          required |-> <<"name", "revision">>]],
      [name |-> "list_projects",
       description |-> "List all ArgoCD projects",
       inputSchema |-> [type |-> "object", properties |-> <<>>]]>>


\* create_server, up to the registration of the handlers: the client its
\* closures capture, or the exit of the process (sys.exit(1)) after the
\* diagnostic on stderr.
create_server(e) ==
    Only({ IF config.ok
           THEN [exited |-> FALSE, client |-> ArgoCDClient(config.val),
                 stderr |-> ""]
           ELSE [exited |-> TRUE, client |-> Null,
                 stderr |-> "Configuration error: " \o config.msg]
           : config \in {from_env(e)} })

---------------------------------------------------------------------------
(* http_server.py: the HTTP transport.                                     *)

\* A get_client without its `is None` test: every call constructs.
get_client_rebuilding(gc, e) ==
    Only({ IF config.ok
           THEN [res |-> Ok(ArgoCDClient(config.val)),
                 client |-> ArgoCDClient(config.val), built |-> 1]
           ELSE [res |-> config, client |-> gc, built |-> 0]
           : config \in {from_env(e)} })

\* get_client: the client returned (or the exception of from_env), the
\* value of the global argocd_client afterwards, and the number of clients
\* the call constructed.
get_client(gc, e) ==
    IF gc = Null
    THEN Only({ IF config.ok
                THEN [res |-> Ok(ArgoCDClient(config.val)),
                      client |-> ArgoCDClient(config.val), built |-> 1]
                ELSE [res |-> config, client |-> gc, built |-> 0]
                : config \in {from_env(e)} })
    ELSE [res |-> Ok(gc), client |-> gc, built |-> 0]

\* startup_event: logs and re-raises what get_client raises.
startup_event(gc, e) ==
    Only({ [raised |-> ~g.res.ok, client |-> g.client, built |-> g.built]
           : g \in {get_client(gc, e)} })

\* An HTTP catalog that has drifted from the stdio one: rollback_application
\* no longer requires its revision.
list_tools_impl_drifted ==
    [list_tools EXCEPT ![6].inputSchema.required = <<"name">>]

\* list_tools_impl: the catalog of the HTTP transport.
list_tools_impl ==
    <<[name |-> "list_applications",
       description |-> "List all ArgoCD applications with optional filtering by project or selector",
       inputSchema |->
         [type |-> "object",
          properties |->
            [project |-> [type |-> "string",
                          description |-> "Filter applications by project name"],
             selector |-> [type |-> "string",
                           description |-> "Filter applications by label selector (e.g., 'app=myapp')"]]]],
      [name |-> "get_application",
       description |-> "Get detailed information about a specific ArgoCD application",
       inputSchema |->
         [type |-> "object",
          properties |->
            [name |-> [type |-> "string", description |-> "Application name"]],
          required |-> <<"name">>]],
      [name |-> "sync_application",
       description |-> "Trigger synchronization of an ArgoCD application",
       inputSchema |->
         [type |-> "object",
          properties |->
            [name |-> [type |-> "string", description |-> "Application name"],
             prune |-> [type |-> "boolean",
                        description |-> "Prune resources that are no longer in git",
                        default |-> FALSE],
             dry_run |-> [type |-> "boolean",
                          description |-> "Preview sync without applying changes",
                          default |-> FALSE],
             revision |-> [type |-> "string",
                           description |-> "Specific git revision to sync to"]],
          required |-> <<"name">>]],
      [name |-> "get_application_manifests",
       description |-> "Get the Kubernetes manifests for an application",
       inputSchema |->
         [type |-> "object",
          properties |->
            [name |-> [type |-> "string", description |-> "Application name"]],
          required |-> <<"name">>]],
      [name |-> "get_sync_history",
       description |-> "Get synchronization history for an application",
       inputSchema |->
         [type |-> "object",
          properties |->
            [name |-> [type |-> "string", description |-> "Application name"]],
          required |-> <<"name">>]],
      [name |-> "rollback_application",
       description |-> "Rollback an application to a previous revision",
       inputSchema |->
         [type |-> "object",
          properties |->
            [name |-> [type |-> "string", description |-> "Application name"],
             revision |-> [type |-> "string",
                           description |-> "Git revision to rollback to"]],
          required |-> <<"name", "revision">>]],
      [name |-> "list_projects",
       description |-> "List all ArgoCD projects",
       inputSchema |-> [type |-> "object", properties |-> <<>>]]>>



\* {"type": "text", "text": s}
TextDict(s) == [type |-> "text", text |-> s]

\* call_tool_impl, the loop of its list_applications branch over apps[i..]:
\* summary += format_application_summary(app); summary += "\n"
RECURSIVE AppsLoopImpl(_, _, _)
AppsLoopImpl(apps, i, summary) ==
    IF i > Len(apps) THEN Ok(summary)
    ELSE Only({ IF ~f.ok THEN f
                ELSE AppsLoopImpl(apps, i + 1, summary \o f.val \o "\n")
                : f \in {format_application_summary(apps[i])} })

\* call_tool_impl, the loop of its get_sync_history branch over history[i..].
RECURSIVE HistoryLoopImpl(_, _, _)
HistoryLoopImpl(history, i, summary) ==
    IF i > Len(history) THEN Ok(summary)
    ELSE Only({ IF ~revision.ok THEN revision
                ELSE HistoryLoopImpl(history, i + 1,
                        summary \o "Revision: " \o PyStr(revision.val) \o "\n"
                        \o "Deployed At: " \o PyStr(deployed_at.val) \o "\n\n")
                : revision \in {PyGet(history[i], "revision", Str("unknown"))},
                  deployed_at \in {PyGet(history[i], "deployedAt",
                                         Str("unknown"))} })

\* call_tool_impl, the loop of its list_projects branch over projects[i..].
RECURSIVE ProjectsLoopImpl(_, _, _)
ProjectsLoopImpl(projects, i, summary) ==
    IF i > Len(projects) THEN Ok(summary)
    ELSE Only({ IF ~name.ok THEN name
                ELSE ProjectsLoopImpl(projects, i + 1,
                                  summary \o "- " \o PyStr(name.val) \o "\n")
                : name \in {ThenGet(PyGet(projects[i], "metadata", EmptyObj),
                                    "name", Str("unknown"))} })

\* call_tool_impl, what follows `apps = await client.list_applications(...)`.
ListApplicationsTextImpl(r) ==
    IF ~r.res.ok THEN r
    ELSE IF ~Truthy(r.res.val)
    THEN Done(Ok(<<TextDict("No applications found")>>), r.sent)
    ELSE Only({ IF ~n.ok THEN Done(n, r.sent)
                ELSE Only({ IF ~summary.ok THEN Done(summary, r.sent)
                            ELSE Done(Ok(<<TextDict(summary.val)>>), r.sent)
                            : summary \in
                                {AppsLoopImpl(PyIter(r.res.val), 1,
                                    "Found " \o ToString(n.val)
                                    \o " application(s):\n\n")} })
                : n \in {PyLen(r.res.val)} })

\* call_tool_impl, what follows `history = await client.get_sync_history(...)`.
SyncHistoryTextImpl(r, nm) ==
    IF ~r.res.ok THEN r
    ELSE IF ~Truthy(r.res.val)
    THEN Done(Ok(<<TextDict("No sync history found")>>), r.sent)
    ELSE Only({ IF ~summary.ok THEN Done(summary, r.sent)
                ELSE Done(Ok(<<TextDict(summary.val)>>), r.sent)
                : summary \in
                    {HistoryLoopImpl(PyIter(r.res.val), 1,
                        "Sync history for " \o PyStr(nm) \o ":\n\n")} })

\* The list_projects branch of an HTTP dispatcher edited apart from the
\* stdio one: the heading counts "projects", without the "(s)".
ListProjectsTextImpl_drifted(r) ==
    IF ~r.res.ok THEN r
    ELSE IF ~Truthy(r.res.val)
    THEN Done(Ok(<<TextDict("No projects found")>>), r.sent)
    ELSE Only({ IF ~n.ok THEN Done(n, r.sent)
                ELSE Only({ IF ~summary.ok THEN Done(summary, r.sent)
                            ELSE Done(Ok(<<TextDict(summary.val)>>), r.sent)
                            : summary \in
                                {ProjectsLoopImpl(PyIter(r.res.val), 1,
                                    "Found " \o ToString(n.val)
                                    \o " projects:\n\n")} })
                : n \in {PyLen(r.res.val)} })

\* call_tool_impl, what follows `projects = await client.list_projects()`.
ListProjectsTextImpl(r) ==
    IF ~r.res.ok THEN r
    ELSE IF ~Truthy(r.res.val)
    THEN Done(Ok(<<TextDict("No projects found")>>), r.sent)
    ELSE Only({ IF ~n.ok THEN Done(n, r.sent)
                ELSE Only({ IF ~summary.ok THEN Done(summary, r.sent)
                            ELSE Done(Ok(<<TextDict(summary.val)>>), r.sent)
                            : summary \in
                                {ProjectsLoopImpl(PyIter(r.res.val), 1,
                                    "Found " \o ToString(n.val)
                                    \o " project(s):\n\n")} })
                : n \in {PyLen(r.res.val)} })

\* A dispatcher that raises for a name it does not know, where the code
\* returns a text block.
unknown_tool_impl_raising(name) ==
    Done(Raise("ValueError", "Unknown tool: " \o PyStr(name)), <<>>)

\* call_tool_impl, its else branch: no tool of that name.
unknown_tool_impl(name) ==
    Done(Ok(<<TextDict("Unknown tool: " \o PyStr(name))>>), <<>>)

\* call_tool_impl, the body of its try block.  The result is the list of text
\* blocks returned or the exception raised, with the requests sent.
call_tool_impl_try(client, name, arguments, o) ==
    CASE name = Str("list_applications") ->
           Only({ IF ~project.ok THEN Done(project, <<>>)
                  ELSE Only({ ListApplicationsTextImpl(r)
                              : r \in {client_list_applications(client,
                                          project.val, selector.val, o)} })
                  : project \in {PyGet(arguments, "project", Null)},
                    selector \in {PyGet(arguments, "selector", Null)} })
      [] name = Str("get_application") ->
           Only({ IF ~nm.ok THEN Done(nm, <<>>)
                  ELSE Only({ IF ~r.res.ok THEN r
                              ELSE Done(Ok(<<TextDict(json_dumps(r.res.val, 0))>>),
                                        r.sent)
                              : r \in {client_get_application(client, nm.val, o)} })
                  : nm \in {PyItem(arguments, "name")} })
      [] name = Str("sync_application") ->
           Only({ IF ~nm.ok THEN Done(nm, <<>>)
                  ELSE Only({ IF ~r.res.ok THEN r
                              ELSE Done(Ok(<<TextDict(
                                      "Sync initiated for " \o PyStr(nm.val)
                                      \o "\n\n" \o json_dumps(r.res.val, 0))>>),
                                    r.sent)
                              : r \in {client_sync_application(client, nm.val,
                                          PyGet(arguments, "prune", Bool(FALSE)).val,
                                          PyGet(arguments, "dry_run", Bool(FALSE)).val,
                                          PyGet(arguments, "revision", Null).val,
                                          o)} })
                  : nm \in {PyItem(arguments, "name")} })
      [] name = Str("get_application_manifests") ->
           Only({ IF ~nm.ok THEN Done(nm, <<>>)
                  ELSE Only({ IF ~r.res.ok THEN r
                              ELSE Done(Ok(<<TextDict(json_dumps(r.res.val, 0))>>),
                                        r.sent)
                              : r \in {client_get_application_manifests(client,
                                          nm.val, o)} })
                  : nm \in {PyItem(arguments, "name")} })
      [] name = Str("get_sync_history") ->
           Only({ IF ~nm.ok THEN Done(nm, <<>>)
                  ELSE Only({ SyncHistoryTextImpl(r, nm.val)
                              : r \in {client_get_sync_history(client, nm.val, o)} })
                  : nm \in {PyItem(arguments, "name")} })
      [] name = Str("rollback_application") ->
           Only({ IF ~nm.ok THEN Done(nm, <<>>)
                  ELSE IF ~revision.ok THEN Done(revision, <<>>)
                  ELSE Only({ IF ~r.res.ok THEN r
                              ELSE Done(Ok(<<TextDict(
                                      "Rollback initiated for " \o PyStr(nm.val)
                                      \o " to revision " \o PyStr(revision.val)
                                      \o "\n\n" \o json_dumps(r.res.val, 0))>>),
                                    r.sent)
                              : r \in {client_rollback_application(client, nm.val,
                                          revision.val, o)} })
                  : nm \in {PyItem(arguments, "name")},
                    revision \in {PyItem(arguments, "revision")} })
      [] name = Str("list_projects") ->
           Only({ ListProjectsTextImpl(r) : r \in {client_list_projects(client, o)} })
      [] OTHER -> unknown_tool_impl(name)

\* A call_tool_impl without the `except Exception` of its try block.
call_tool_impl_reraising(gc, e, name, arguments, o) ==
    Only({ IF ~g.res.ok THEN [res |-> g.res, sent |-> <<>>, client |-> g.client,
                                  built |-> g.built]
           ELSE Only({ [res |-> r.res, sent |-> r.sent, client |-> g.client,
                        built |-> g.built]
                       : r \in {call_tool_impl_try(g.res.val, name, arguments, o)} })
           : g \in {get_client(gc, e)} })

\* call_tool_impl: get_client(), then the try block and its
\* `except Exception`.  The result carries the global argocd_client as the
\* call leaves it.
call_tool_impl(gc, e, name, arguments, o) ==
    Only({ IF ~g.res.ok THEN [res |-> g.res, sent |-> <<>>, client |-> g.client,
                                  built |-> g.built]
           ELSE Only({ IF r.res.ok
                       THEN [res |-> r.res, sent |-> r.sent, client |-> g.client,
                             built |-> g.built]
                       ELSE [res |-> Ok(<<TextDict("Error: " \o r.res.msg)>>),
                             sent |-> r.sent, client |-> g.client,
                             built |-> g.built]
                       : r \in {call_tool_impl_try(g.res.val, name, arguments, o)} })
           : g \in {get_client(gc, e)} })

\* The JSON-RPC code of the error envelope.
InternalError == -32603

\* The two shapes of the envelope mcp_endpoint returns.
ResultEnvelope(id, result) == [jsonrpc |-> "2.0", id |-> id, result |-> result]
ErrorEnvelope(id, message) ==
    [jsonrpc |-> "2.0", id |-> id,
     error |-> [code |-> InternalError, message |-> message]]

\* A result of mcp_endpoint that sent nothing and left the client as it was.
Quiet(res, gc) == [res |-> res, sent |-> <<>>, client |-> gc, built |-> 0]

\* request.json(): the parsed body, raw being NotJson when it has none.
request_json(raw) ==
    IF raw = NotJson
    THEN Raise("JSONDecodeError", "Expecting value: line 1 column 1 (char 0)")
    ELSE Ok(raw)

\* mcp_endpoint, its tools/call branch, body being a dict.
mcp_tools_call(gc, e, body, o) ==
    Only({ IF ~tool_name.ok THEN Quiet(tool_name, gc)
           ELSE Only({ IF ~result.res.ok THEN result
                       ELSE [result EXCEPT !.res =
                               Ok(ResultEnvelope(PyGet(body, "id", Null).val,
                                                 [content |-> result.res.val]))]
                       : result \in {call_tool_impl(gc, e, tool_name.val,
                                        ThenGet(PyGet(body, "params", EmptyObj),
                                                "arguments", EmptyObj).val,
                                        o)} })
           : tool_name \in {ThenGet(PyGet(body, "params", EmptyObj),
                                    "name", Null)} })

\* mcp_endpoint, the body of its try block.
mcp_endpoint_try(gc, e, raw, o) ==
    Only({ IF ~body.ok THEN Quiet(body, gc)
           ELSE Only({ IF ~method.ok THEN Quiet(method, gc)
                       ELSE IF method.val = Str("tools/list")
                       THEN Quiet(Ok(ResultEnvelope(PyGet(body.val, "id", Null).val,
                                        [tools |-> list_tools_impl])), gc)
                       ELSE IF method.val = Str("tools/call")
                       THEN mcp_tools_call(gc, e, body.val, o)
                       ELSE IF method.val = Str("initialize")
                       THEN Quiet(Ok(ResultEnvelope(PyGet(body.val, "id", Null).val,
                                 [protocolVersion |-> "2024-11-05",
                                  capabilities |-> [tools |-> <<>>],
                                  serverInfo |-> [name |-> "argocd-mcp-server",
                                                  version |-> "0.1.0"]])), gc)
                       ELSE Quiet(Ok(ResultEnvelope(PyGet(body.val, "id", Null).val,
                                 [status |-> "ok", method |-> method.val])), gc)
                       : method \in {PyGet(body.val, "method", Str("unknown"))} })
           : body \in {request_json(raw)} })

\* mcp_endpoint: the try block and its `except Exception`, whose
\* `body.get("id") if body else None` is evaluated outside any try; body
\* is None there when request.json() raised.
mcp_endpoint(gc, e, raw, o) ==
    Only({ IF r.res.ok THEN r
           ELSE Only({ IF ~id.ok THEN [r EXCEPT !.res = id]
                       ELSE [r EXCEPT !.res = Ok(ErrorEnvelope(id.val, r.res.msg))]
                       : id \in {IF raw # NotJson /\ Truthy(raw)
                                 THEN PyGet(raw, "id", Null) ELSE Ok(Null)} })
           : r \in {mcp_endpoint_try(gc, e, raw, o)} })

---------------------------------------------------------------------------
(* The inputs of the model: environments, tool calls, request bodies and   *)
(* the remote controller's answers.                                        *)

\* No exchange is being shown.
Idle == [op |-> "idle"]

\* No tools/call awaits the remote.
NoCall == [op |-> "none"]

SeqsUpTo(S, n) == UNION {[1..k -> S] : k \in 0..n}

\* {k1: v1} and {k1: v1, k2: v2}
O1(k, v) == Obj(k :> v)
O2(k1, v1, k2, v2) == Obj((k1 :> v1) @@ (k2 :> v2))

\* The dicts with, for each key of the function choices, one of its values
\* or (for Absent) no such key.
Absent == [t |-> "absent"]
Dicts(choices) ==
    {Obj([k \in {x \in DOMAIN f : f[x] # Absent} |-> f[k]]) :
        f \in {g \in [DOMAIN choices -> UNION {choices[k] : k \in DOMAIN choices}] :
                 \A k \in DOMAIN choices : g[k] \in choices[k]}}

Environments ==
    {[ARGOCD_SERVER |-> s, ARGOCD_TOKEN |-> t, ARGOCD_INSECURE |-> i] :
        s \in {Null, Str(""), Str("argocd.example.com")},
        t \in {Null, Str(""), Str("s3cr3t")},
        i \in {Null, Str("True")}}

CatalogNames ==
    {"list_applications", "get_application", "sync_application",
     "get_application_manifests", "get_sync_history", "rollback_application",
     "list_projects"}

\* The tool names of a tools/call: the catalog's, three others, and (HTTP
\* only) the None of a params object without a name.
ToolNames ==
    {Str(n) : n \in CatalogNames}
    \cup {Str("frobnicate"), Str("delete_application"), Str("get_cluster_info"),
          Null}

\* Arguments that are no dict.
NonDicts == {Null, Arr(<<Str("foo")>>)}

ArgsFor(name) ==
    NonDicts \cup
    CASE name = Str("list_applications") ->
           Dicts([project |-> {Absent, Str(""), Str("default")},
                  selector |-> {Absent, Str("app=myapp")}])
      [] name = Str("sync_application") ->
           Dicts([name |-> {Absent, Str("foo")},
                  prune |-> {Absent, Bool(TRUE), Bool(FALSE)},
                  dry_run |-> {Absent, Bool(TRUE), Bool(FALSE)},
                  revision |-> {Absent, Null, Str(""), Str("abc123")}])
      [] name = Str("rollback_application") ->
           Dicts([name |-> {Absent, Str("foo")},
                  revision |-> {Absent, Str(""), Str("abc123")}])
      [] name = Str("list_projects") ->
           Dicts([project |-> {Absent, Str("default")}])
      [] OTHER ->
           Dicts([name |-> {Absent, Str("foo"), Str("bar")}])

FullApp ==
    Obj(("metadata" :> O2("name", Str("guestbook"), "namespace", Str("argocd")))
        @@ ("spec" :> O1("source",
                Obj(("repoURL" :> Str("https://git.example.com/repo.git"))
                    @@ ("path" :> Str("apps/guestbook"))
                    @@ ("targetRevision" :> Str("HEAD")))))
        @@ ("status" :> O2("sync", O1("status", Str("Synced")),
                           "health", O1("status", Str("Healthy")))))

\* metadata without namespace, spec without source, status without health
\* and with a sync that has no status.
PartialApp ==
    Obj(("metadata" :> O1("name", Str("partial")))
        @@ ("spec" :> EmptyObj)
        @@ ("status" :> O1("sync", EmptyObj)))

\* An application whose metadata is null.
BrokenApp == O1("metadata", Null)

AppObjs == {FullApp, PartialApp, EmptyObj, BrokenApp}

HistoryEntries ==
    {O2("revision", Str("abc123"), "deployedAt", Str("2024-01-01T00:00:00Z")),
     O1("revision", Str("def456")), EmptyObj, Null}

ProjectObjs ==
    {O1("metadata", O1("name", Str("default"))), O1("metadata", EmptyObj),
     EmptyObj, Null}

\* Remote calls that fail: at the connection, by the timeout, by a non-2xx
\* status, by a body that is no JSON.
Failures ==
    {ConnectFailure, Timeout, Response(302, NotJson), Response(404, NotJson),
     Response(500, NotJson), Response(200, NotJson)}

\* The application documents GET /applications/{name} answers with.
AppDocs ==
    AppObjs
    \cup {O1("status", Null), O1("status", EmptyObj),
          O1("status", O1("history", Null))}
    \cup {O1("status", O1("history", Arr(h))) :
            h \in SeqsUpTo(HistoryEntries, MaxItems)}

BodiesFor(name) ==
    CASE name = Str("list_applications") ->
           {EmptyObj, Null, O1("items", Null)}
           \cup {O1("items", Arr(l)) : l \in SeqsUpTo(AppObjs, MaxItems)}
      [] name = Str("get_application") -> AppObjs
      [] name = Str("get_sync_history") -> AppDocs
      [] name = Str("get_application_manifests") ->
           {EmptyObj, O1("manifests", Arr(<<Str("kind: Service")>>))}
      [] name = Str("list_projects") ->
           {EmptyObj, Null, O1("items", Null)}
           \cup {O1("items", Arr(l)) : l \in SeqsUpTo(ProjectObjs, MaxItems)}
      [] OTHER -> {EmptyObj, O2("phase", Str("Running"), "message", Str("ok"))}

OutcomesFor(name) == Failures \cup {Response(200, b) : b \in BodiesFor(name)}

\* The bodies POST /mcp receives.
CallBodies ==
    UNION {{Obj(("method" :> Str("tools/call")) @@ ("id" :> Num(7))
                @@ ("params" :> O2("name", n, "arguments", a))) :
              a \in ArgsFor(n)} : n \in ToolNames \ {Null}}

OtherBodies ==
    {NotJson, Null, Num(0), Str("abc"), EmptyArr, Arr(<<Num(1)>>), EmptyObj,
     O1("id", Num(7)), O1("method", Null)}
    \cup Dicts([method |-> {Str("tools/list"), Str("initialize"), Str("ping"),
                            Str("tools/call")},
                id |-> {Absent, Num(7), Str("a")},
                params |-> {Absent, Null, EmptyObj, EmptyArr,
                            O1("name", Str("list_projects")),
                            O1("arguments", EmptyObj),
                            O2("name", Str("get_application"), "arguments", Null)}])

\* The tool a request body calls, for the choice of the remote's answer.
CalledTool(raw) ==
    IF raw.t = "obj" /\ "params" \in DOMAIN raw.v /\ raw.v["params"].t = "obj"
       /\ "name" \in DOMAIN raw.v["params"].v
    THEN raw.v["params"].v["name"] ELSE Null

---------------------------------------------------------------------------
(* The state machine.                                                      *)

Init ==
    /\ env \in Environments
    /\ stdio_pc = "start"
    /\ stdio_client = Null
    /\ http_pc = "imported"
    /\ argocd_client = Null
    /\ last = Idle
    /\ constructed = 0
    /\ pending = NoCall

\* server.main: create_server(), then the message loop of the library.
StdioMain ==
    /\ stdio_pc = "start"
    /\ last = Idle
    /\ \E c \in {create_server(env)} :
          /\ stdio_pc' = IF c.exited THEN "exited" ELSE "serving"
          /\ stdio_client' = c.client
    /\ UNCHANGED <<env, http_pc, argocd_client, last, constructed, pending>>

\* A tools/list message on the stdio transport.
StdioListTools ==
    /\ stdio_pc = "serving"
    /\ last = Idle
    /\ last' = [op |-> "list_tools", req |-> Null, outcome |-> Null,
                res |-> Ok(list_tools), sent |-> <<>>]
    /\ UNCHANGED <<env, stdio_pc, stdio_client, http_pc, argocd_client,
                   constructed, pending>>

\* A tools/call message on the stdio transport: the library hands the tool
\* name (a string) and the arguments (a dict) to call_tool.
StdioCallTool ==
    /\ stdio_pc = "serving"
    /\ last = Idle
    /\ \E name \in ToolNames \ {Null} :
       \E arguments \in ArgsFor(name) \ NonDicts :
       \E o \in OutcomesFor(name) :
       \E r \in {call_tool(stdio_client, name, arguments, o)} :
          last' = [op |-> "call_tool",
                   req |-> [name |-> name, arguments |-> arguments],
                   outcome |-> o, res |-> r.res, sent |-> r.sent]
    /\ UNCHANGED <<env, stdio_pc, stdio_client, http_pc, argocd_client,
                   constructed, pending>>

\* run_http_server: uvicorn runs the startup hook and serves only when it
\* did not raise.
HttpStartup ==
    /\ http_pc = "imported"
    /\ last = Idle
    /\ \E s \in {startup_event(argocd_client, env)} :
          /\ http_pc' = IF s.raised THEN "failed" ELSE "serving"
          /\ argocd_client' = s.client
          /\ constructed' = constructed + s.built
    /\ UNCHANGED <<env, stdio_pc, stdio_client, last, pending>>

\* A POST /mcp served by the HTTP transport.
HttpMcp ==
    /\ http_pc = "serving"
    /\ last = Idle
    /\ \E raw \in CallBodies \cup OtherBodies :
       \E o \in OutcomesFor(CalledTool(raw)) :
       \E r \in {mcp_endpoint(argocd_client, env, raw, o)} :
          /\ last' = [op |-> "mcp_endpoint", route |-> "/mcp", req |-> raw,
                      outcome |-> o, res |-> r.res, sent |-> r.sent]
          /\ argocd_client' = r.client
          /\ constructed' = constructed + r.built
    /\ UNCHANGED <<env, stdio_pc, stdio_client, http_pc, pending>>

\* A call of the module-level coroutine call_tool_impl by a caller other
\* than the served endpoint (a test, an embedding application), possible as
\* soon as the module is imported.
HttpCallToolImpl ==
    /\ http_pc = "imported"
    /\ last = Idle
    /\ \E name \in ToolNames :
       \E arguments \in ArgsFor(name) :
       \E o \in OutcomesFor(name) :
       \E r \in {call_tool_impl(argocd_client, env, name, arguments, o)} :
          /\ last' = [op |-> "call_tool_impl",
                      req |-> [name |-> name, arguments |-> arguments],
                      outcome |-> o, res |-> r.res, sent |-> r.sent]
          /\ argocd_client' = r.client
          /\ constructed' = constructed + r.built
    /\ UNCHANGED <<env, stdio_pc, stdio_client, http_pc, pending>>

\* The exchange shown is over: its response has gone to the caller.
Deliver ==
    /\ last # Idle
    /\ last' = Idle
    /\ UNCHANGED <<env, stdio_pc, stdio_client, http_pc, argocd_client,
                   constructed, pending>>

Next ==
    \/ StdioMain
    \/ StdioListTools
    \/ StdioCallTool
    \/ HttpStartup
    \/ HttpMcp
    \/ HttpCallToolImpl
    \/ Deliver

Spec == Init /\ [][Next]_vars

---------------------------------------------------------------------------
(* The same program with a tools/call in two steps: the handler runs up to *)
(* its `await client.request(...)`, and resumes when the request ends, by  *)
(* the remote or by the timeout of the request.                            *)

\* The outcome recorded for a call that made no request.
NoAnswer == [kind |-> "none"]

\* What the handler of the awaited call p returns once its request ended
\* with outcome o; the requests it sent are the ones p holds.
Resumed(p, o) ==
    IF p.op = "call_tool"
    THEN call_tool(stdio_client, p.req.name, p.req.arguments, o)
    ELSE mcp_endpoint(argocd_client, env, p.req, o)

\* The tool the awaited call p names.
AwaitedTool(p) == IF p.op = "call_tool" THEN p.req.name ELSE CalledTool(p.req)

\* A tools/call message on the stdio transport, up to its request if it
\* makes one, to its return otherwise.
StdioBegin ==
    /\ stdio_pc = "serving"
    /\ last = Idle
    /\ pending = NoCall
    /\ \E name \in ToolNames \ {Null} :
       \E arguments \in ArgsFor(name) \ NonDicts :
       \E r \in {call_tool(stdio_client, name, arguments, Timeout)} :
          IF r.sent = <<>>
          THEN /\ last' = [op |-> "call_tool",
                           req |-> [name |-> name, arguments |-> arguments],
                           outcome |-> NoAnswer, res |-> r.res, sent |-> r.sent]
               /\ pending' = pending
          ELSE /\ pending' = [op |-> "call_tool",
                              req |-> [name |-> name, arguments |-> arguments],
                              sent |-> r.sent]
               /\ last' = last
    /\ UNCHANGED <<env, stdio_pc, stdio_client, http_pc, argocd_client,
                   constructed>>

\* A POST /mcp on the HTTP transport, up to its request if it makes one, to
\* its return otherwise.
HttpBegin ==
    /\ http_pc = "serving"
    /\ last = Idle
    /\ pending = NoCall
    /\ \E raw \in CallBodies \cup OtherBodies :
       \E r \in {mcp_endpoint(argocd_client, env, raw, Timeout)} :
          /\ IF r.sent = <<>>
             THEN /\ last' = [op |-> "mcp_endpoint", route |-> "/mcp",
                              req |-> raw, outcome |-> NoAnswer,
                              res |-> r.res, sent |-> r.sent]
                  /\ pending' = pending
             ELSE /\ pending' = [op |-> "mcp_endpoint", route |-> "/mcp",
                                 req |-> raw, sent |-> r.sent]
                  /\ last' = last
          /\ argocd_client' = r.client
          /\ constructed' = constructed + r.built
    /\ UNCHANGED <<env, stdio_pc, stdio_client, http_pc>>

\* The awaited request ends before its timeout, by a response or by the
\* failure of the connection, and the handler returns.
RemoteAnswers ==
    /\ pending # NoCall
    /\ \E o \in OutcomesFor(AwaitedTool(pending)) \ {Timeout} :
       \E r \in {Resumed(pending, o)} :
          last' = [outcome |-> o, res |-> r.res] @@ pending
    /\ pending' = NoCall
    /\ UNCHANGED <<env, stdio_pc, stdio_client, http_pc, argocd_client,
                   constructed>>

\* The timeout of the awaited request, if it has one, ends it, and the
\* handler returns.
TimeoutExpires ==
    /\ pending # NoCall
    /\ pending.sent[1].timeout # Null
    /\ \E r \in {Resumed(pending, Timeout)} :
          last' = [outcome |-> Timeout, res |-> r.res] @@ pending
    /\ pending' = NoCall
    /\ UNCHANGED <<env, stdio_pc, stdio_client, http_pc, argocd_client,
                   constructed>>

NextLive ==
    \/ StdioMain
    \/ HttpStartup
    \/ StdioBegin
    \/ HttpBegin
    \/ RemoteAnswers
    \/ TimeoutExpires
    \/ Deliver

\* The timer of a request runs whatever the remote does: httpx ends the wait
\* when it expires.
LiveSpec == Init /\ [][NextLive]_vars /\ WF_vars(TimeoutExpires)

---------------------------------------------------------------------------
(* The exchange shown by `last`, as the properties below speak of it.      *)

\* The string s begins with the string p.
StartsWith(s, p) == Len(s) >= Len(p) /\ SubSeq(s, 1, Len(p)) = p

\* raw is the envelope of a tools/call whose params, if any, is an object.
IsToolsCall(raw) ==
    /\ raw.t = "obj"
    /\ "method" \in DOMAIN raw.v
    /\ raw.v["method"] = Str("tools/call")
    /\ "params" \in DOMAIN raw.v => raw.v["params"].t = "obj"

\* The params of such an envelope.
ParamsOf(raw) == IF "params" \in DOMAIN raw.v THEN raw.v["params"] ELSE EmptyObj

\* `last` shows a tools/call served by the stdio or by the HTTP transport.
ServedCall ==
    \/ last.op = "call_tool"
    \/ last.op = "mcp_endpoint" /\ IsToolsCall(last.req)

\* The tool name and the arguments of the served call.
CallName ==
    IF last.op = "call_tool" THEN last.req.name
    ELSE IF "name" \in DOMAIN ParamsOf(last.req).v
    THEN ParamsOf(last.req).v["name"] ELSE Null

CallArgs ==
    IF last.op = "call_tool" THEN last.req.arguments
    ELSE IF "arguments" \in DOMAIN ParamsOf(last.req).v
    THEN ParamsOf(last.req).v["arguments"] ELSE EmptyObj

\* The client the served call uses.
CallClient == IF last.op = "call_tool" THEN stdio_client ELSE argocd_client

IsResultEnvelope(v) == "result" \in DOMAIN v /\ "error" \notin DOMAIN v
IsErrorEnvelope(v) == "error" \in DOMAIN v /\ "result" \notin DOMAIN v

\* The call was answered with a successful envelope: call_tool returned its
\* blocks to the library, mcp_endpoint returned a result envelope of content.
Answered ==
    /\ last.res.ok
    /\ last.op = "mcp_endpoint" =>
          /\ IsResultEnvelope(last.res.val)
          /\ DOMAIN last.res.val.result = {"content"}

\* The content blocks of that envelope.
Blocks ==
    IF last.op = "mcp_endpoint" THEN last.res.val.result.content
    ELSE last.res.val

\* The answer is a successful envelope of exactly one text block.
SingleBlock ==
    /\ Answered
    /\ Len(Blocks) = 1
    /\ Blocks[1].type = "text"

\* The remote call failed: no connection, no answer in time, a non-2xx
\* status.
RemoteFailed ==
    \/ last.outcome \in {ConnectFailure, Timeout}
    \/ /\ last.outcome.kind = "response"
       /\ ~(200 <= last.outcome.status /\ last.outcome.status <= 299)

\* The arguments each tool of the catalog requires.
RequiredArgs(n) ==
    CASE n = "rollback_application" -> {"name", "revision"}
      [] n \in {"list_applications", "list_projects"} -> {}
      [] OTHER -> {"name"}

\* The arguments are an object that lacks an argument the tool requires.
MissingRequired ==
    /\ CallArgs.t = "obj"
    /\ \E k \in RequiredArgs(CallName.v) : k \notin DOMAIN CallArgs.v

\* The remote answered 200 with a JSON object.
RemoteObject ==
    /\ last.outcome.kind = "response"
    /\ last.outcome.status = 200
    /\ last.outcome.body.t = "obj"

---------------------------------------------------------------------------
(* C1.  Neither dispatcher (call_tool, call_tool_impl) lets an exception   *)
(* propagate: whatever the tool name, the arguments, the remote's answer   *)
(* and the state of the shared client, the call returns a sequence of text *)
(* blocks.                                                                 *)

C1_DispatchersNeverRaise ==
    last.op \in {"call_tool", "call_tool_impl"} =>
        /\ last.res.ok
        /\ \A i \in 1..Len(last.res.val) : last.res.val[i].type = "text"

---------------------------------------------------------------------------
(* C2.  A tools/call naming a tool outside the catalog is answered, on     *)
(* both transports, with a successful envelope whose content is the single *)
(* text block "Unknown tool: <name>", and no request goes to the remote    *)
(* controller.                                                             *)

C2_UnknownTool ==
    ServedCall /\ CallName \notin {Str(n) : n \in CatalogNames} =>
        /\ SingleBlock
        /\ Blocks[1].text = "Unknown tool: " \o PyStr(CallName)
        /\ last.sent = <<>>

\* An HTTP tools/call for "frobnicate" has been answered so.
C2_Witness ==
    /\ last.op = "mcp_endpoint"
    /\ IsToolsCall(last.req)
    /\ CallName = Str("frobnicate")
    /\ last.res.ok
    /\ last.res.val.result.content
         = <<[type |-> "text", text |-> "Unknown tool: frobnicate"]>>
    /\ last.sent = <<>>

---------------------------------------------------------------------------
(* C3.  A tools/call for a tool of the catalog whose remote call fails     *)
(* (no connection, timeout, non-2xx status) or whose arguments lack a      *)
(* required one is answered with a successful envelope whose content is a  *)
(* single text block beginning "Error: ".                                  *)

C3_ErrorText ==
    /\ ServedCall
    /\ CallName \in {Str(n) : n \in CatalogNames}
    /\ RemoteFailed \/ MissingRequired
    => /\ SingleBlock
       /\ StartsWith(Blocks[1].text, "Error: ")

\* An HTTP tools/call whose one request the remote answered with 404 has
\* been answered with the text of the HTTPStatusError.
C3_Witness ==
    /\ last.op = "mcp_endpoint"
    /\ IsToolsCall(last.req)
    /\ CallName = Str("get_application")
    /\ last.outcome = Response(404, NotJson)
    /\ Len(last.sent) = 1
    /\ SingleBlock
    /\ StartsWith(Blocks[1].text, "Error: Client error '404 Not Found'")

---------------------------------------------------------------------------
(* C4.  POST /mcp returns a JSON-RPC error envelope exactly when the body  *)
(* is malformed, that is, is unparseable JSON or has no method field; a    *)
(* well-formed envelope never gets one.                                    *)

\* The body is unparseable or has no method field.
Malformed(raw) ==
    \/ raw = NotJson
    \/ raw.t # "obj"
    \/ "method" \notin DOMAIN raw.v

C4_ErrorEnvelopeIffMalformed ==
    last.op = "mcp_endpoint" /\ last.res.ok =>
        (IsErrorEnvelope(last.res.val) <=> Malformed(last.req))

---------------------------------------------------------------------------
(* C5.  Whatever exception the handler of POST /mcp meets, it returns an   *)
(* error envelope of code -32603 carrying the exception's message; the     *)
(* handler itself never raises, bodies that are JSON but no object and     *)
(* null params included.                                                   *)

C5_HandlerNeverRaises ==
    last.op = "mcp_endpoint" =>
        /\ last.res.ok
        /\ ~mcp_endpoint_try(argocd_client, env, last.req, last.outcome).res.ok
           => /\ IsErrorEnvelope(last.res.val)
              /\ last.res.val.error.code = InternalError
              /\ last.res.val.error.message
                   = mcp_endpoint_try(argocd_client, env, last.req,
                                      last.outcome).res.msg

---------------------------------------------------------------------------
(* C6.  A sync_application call for application N sends exactly one        *)
(* request, POST /applications/N/sync, whose body has prune and dryRun     *)
(* equal to the flags supplied (false for a flag not supplied) and has a   *)
(* revision key, holding the supplied revision, exactly when the revision  *)
(* supplied is not empty.                                                  *)

\* A served sync_application call whose arguments name the application.
SyncCall ==
    /\ ServedCall
    /\ CallName = Str("sync_application")
    /\ CallArgs.t = "obj"
    /\ "name" \in DOMAIN CallArgs.v

\* The flag k as supplied, false when it was not.
SuppliedFlag(k) ==
    IF k \in DOMAIN CallArgs.v THEN CallArgs.v[k] ELSE Bool(FALSE)

\* One POST to the sync path of the application, with the two flags.
SyncRequestSent ==
    /\ Len(last.sent) = 1
    /\ last.sent[1].method = "POST"
    /\ last.sent[1].path = "/applications/" \o CallArgs.v["name"].v \o "/sync"
    /\ last.sent[1].json.t = "obj"
    /\ {"prune", "dryRun"} \subseteq DOMAIN last.sent[1].json.v
    /\ DOMAIN last.sent[1].json.v \subseteq {"prune", "dryRun", "revision"}
    /\ last.sent[1].json.v["prune"] = SuppliedFlag("prune")
    /\ last.sent[1].json.v["dryRun"] = SuppliedFlag("dry_run")

\* A target revision (a string) was supplied.
RevisionSupplied ==
    /\ "revision" \in DOMAIN CallArgs.v
    /\ CallArgs.v["revision"].t = "str"

C6_SyncRequest ==
    SyncCall =>
        /\ SyncRequestSent
        /\ "revision" \in DOMAIN last.sent[1].json.v
             <=> (RevisionSupplied /\ CallArgs.v["revision"].v # "")
        /\ "revision" \in DOMAIN last.sent[1].json.v
             => last.sent[1].json.v["revision"] = CallArgs.v["revision"]

\* The statement with "exactly when a target revision was supplied".
C6_RevisionWheneverSupplied ==
    SyncCall =>
        /\ SyncRequestSent
        /\ "revision" \in DOMAIN last.sent[1].json.v <=> RevisionSupplied

\* A sync with prune set and the empty revision has sent its one POST, the
\* body without a revision key.
C6_Witness ==
    /\ SyncCall
    /\ CallArgs.v = ("name" :> Str("foo")) @@ ("prune" :> Bool(TRUE))
                    @@ ("revision" :> Str(""))
    /\ Len(last.sent) = 1
    /\ last.sent[1].path = "/applications/foo/sync"
    /\ last.sent[1].json
         = Obj(("prune" :> Bool(TRUE)) @@ ("dryRun" :> Bool(FALSE)))

---------------------------------------------------------------------------
(* C7.  The answer to list_applications, the remote having answered with   *)
(* an object: the text "No applications found" when it lists none;         *)
(* otherwise, for n applications, the line "Found n application(s):", an   *)
(* empty line, and per application a block of seven lines (Application,    *)
(* Namespace, Repository, Path, Revision, Sync Status, Health Status)      *)
(* followed by an empty line, a field absent from the application reading  *)
(* "unknown".  The applications are objects whose metadata, spec, source,  *)
(* status, sync and health, where present, are objects.                    *)

\* The number of lines of a text, each ended by a line break.
LineCount(s) == Cardinality({i \in 1..Len(s) : SubSeq(s, i, i) = "\n"})

\* The text made of the lines[i..], each ended by a line break.
RECURSIVE Unlines(_, _)
Unlines(lines, i) ==
    IF i > Len(lines) THEN "" ELSE lines[i] \o "\n" \o Unlines(lines, i + 1)

\* The labels of a summary and where the application holds each field.
SummaryFields ==
    <<[label |-> "Application", path |-> <<"metadata", "name">>],
      [label |-> "Namespace", path |-> <<"metadata", "namespace">>],
      [label |-> "Repository", path |-> <<"spec", "source", "repoURL">>],
      [label |-> "Path", path |-> <<"spec", "source", "path">>],
      [label |-> "Revision", path |-> <<"spec", "source", "targetRevision">>],
      [label |-> "Sync Status", path |-> <<"status", "sync", "status">>],
      [label |-> "Health Status", path |-> <<"status", "health", "status">>]>>

\* The string at the path of v, "unknown" when a key of the path is absent.
RECURSIVE FieldAt(_, _)
FieldAt(v, path) ==
    IF path = <<>> THEN v.v
    ELSE IF Head(path) \in DOMAIN v.v THEN FieldAt(v.v[Head(path)], Tail(path))
    ELSE "unknown"

\* What is present along the path is an object, and a string at its end.
RECURSIVE SoundAt(_, _)
SoundAt(v, path) ==
    IF path = <<>> THEN v.t = "str"
    ELSE /\ v.t = "obj"
         /\ Head(path) \in DOMAIN v.v => SoundAt(v.v[Head(path)], Tail(path))

\* A served list_applications call the remote answered with an object.
ListCall ==
    /\ ServedCall
    /\ CallName = Str("list_applications")
    /\ CallArgs.t = "obj"
    /\ RemoteObject

\* The applications listed by the remote's answer.
ListedItems ==
    IF "items" \in DOMAIN last.outcome.body.v
    THEN last.outcome.body.v["items"] ELSE EmptyArr

NoneListed == ListCall /\ ListedItems \in {Null, EmptyArr}

SomeListed ==
    /\ ListCall
    /\ ListedItems.t = "arr"
    /\ Len(ListedItems.v) >= 1
    /\ \A i \in 1..Len(ListedItems.v) : \A k \in 1..Len(SummaryFields) :
          SoundAt(ListedItems.v[i], SummaryFields[k].path)

\* The lines of the summary of one application, and the empty line after.
BlockOf(app) ==
    [k \in 1..Len(SummaryFields) |->
        SummaryFields[k].label \o ": " \o FieldAt(app, SummaryFields[k].path)]
    \o <<"">>

RECURSIVE BlocksFrom(_, _)
BlocksFrom(apps, i) ==
    IF i > Len(apps) THEN <<>> ELSE BlockOf(apps[i]) \o BlocksFrom(apps, i + 1)

C7_ListApplicationsText ==
    /\ NoneListed => SingleBlock /\ Blocks[1].text = "No applications found"
    /\ SomeListed =>
         /\ SingleBlock
         /\ LineCount(Blocks[1].text) = 2 + Len(ListedItems.v) * (7 + 1)
         /\ Blocks[1].text
              = Unlines(<<"Found " \o ToString(Len(ListedItems.v))
                          \o " application(s):", "">>
                        \o BlocksFrom(ListedItems.v, 1), 1)

\* The statement with blocks of six lines: the two lines of the header,
\* and six lines and an empty one per application.
C7_SixLineBlocks ==
    SomeListed =>
        /\ SingleBlock
        /\ LineCount(Blocks[1].text) = 2 + Len(ListedItems.v) * (6 + 1)

\* Two applications, one of them without most of its fields, have been
\* listed in eighteen lines.
C7_Witness ==
    /\ SomeListed
    /\ last.op = "mcp_endpoint"
    /\ ListedItems.v = <<PartialApp, FullApp>>
    /\ SingleBlock
    /\ LineCount(Blocks[1].text) = 18
    /\ StartsWith(Blocks[1].text,
                  "Found 2 application(s):\n\nApplication: partial\n"
                  \o "Namespace: unknown\nRepository: unknown\n")

---------------------------------------------------------------------------
(* C8.  get_sync_history for an application that has no history: the       *)
(* client returns the empty sequence, the answer is the single text block  *)
(* "No sync history found", and exactly one request was sent, a GET of     *)
(* /applications/{name}.                                                   *)

\* The application document holds no history.
NoHistory(app) ==
    \/ "status" \notin DOMAIN app.v
    \/ /\ app.v["status"].t = "obj"
       /\ \/ "history" \notin DOMAIN app.v["status"].v
          \/ app.v["status"].v["history"] = EmptyArr

\* A served get_sync_history call for such an application.
NoHistoryCall ==
    /\ ServedCall
    /\ CallName = Str("get_sync_history")
    /\ CallArgs.t = "obj"
    /\ "name" \in DOMAIN CallArgs.v
    /\ RemoteObject
    /\ NoHistory(last.outcome.body)

C8_NoSyncHistory ==
    NoHistoryCall =>
        /\ client_get_sync_history(CallClient, CallArgs.v["name"],
                                   last.outcome).res = Ok(EmptyArr)
        /\ SingleBlock
        /\ Blocks[1].text = "No sync history found"
        /\ Len(last.sent) = 1
        /\ last.sent[1].method = "GET"
        /\ last.sent[1].path = "/applications/" \o CallArgs.v["name"].v

\* The history of an application whose document has a status without
\* history has been asked for over HTTP.
C8_Witness ==
    /\ NoHistoryCall
    /\ last.op = "mcp_endpoint"
    /\ last.outcome.body = PartialApp
    /\ CallArgs.v["name"] = Str("bar")
    /\ Blocks[1].text = "No sync history found"
    /\ Len(last.sent) = 1
    /\ last.sent[1].url = "https://argocd.example.com/api/v1/applications/bar"

---------------------------------------------------------------------------
(* C9.  With ARGOCD_SERVER or ARGOCD_TOKEN missing the process never       *)
(* becomes ready: the stdio transport exits, with a diagnostic, before it   *)
(* serves, the HTTP transport fails its startup, no client exists and no   *)
(* request is served.                                                      *)

Configured == Truthy(env.ARGOCD_SERVER) /\ Truthy(env.ARGOCD_TOKEN)

C9_NeverReadyUnconfigured ==
    ~Configured =>
        /\ create_server(env).exited
        /\ StartsWith(create_server(env).stderr, "Configuration error: ARGOCD_")
        /\ startup_event(argocd_client, env).raised
        /\ stdio_pc \in {"start", "exited"}
        /\ http_pc \in {"imported", "failed"}
        /\ stdio_client = Null
        /\ argocd_client = Null
        /\ last.op \notin {"list_tools", "call_tool", "mcp_endpoint"}

\* Both transports have been started without a token and neither serves.
C9_Witness ==
    /\ env.ARGOCD_SERVER = Str("argocd.example.com")
    /\ env.ARGOCD_TOKEN = Null
    /\ stdio_pc = "exited"
    /\ http_pc = "failed"

---------------------------------------------------------------------------
(* C10.  tools/list returns, in every state and on both transports, the    *)
(* same seven tool descriptors: the same names, and for each the same      *)
(* argument names, types, defaults and required set.                       *)

\* An argument of the given type, without and with a default.
ArgOf(type) == [type |-> type, default |-> <<>>]
FlagArg == [type |-> "boolean", default |-> <<FALSE>>]

\* The catalog: each tool's arguments and the ones it requires.
ExpectedCatalog ==
    <<[name |-> "list_applications",
       args |-> [project |-> ArgOf("string"), selector |-> ArgOf("string")],
       required |-> {}],
      [name |-> "get_application",
       args |-> [name |-> ArgOf("string")], required |-> {"name"}],
      [name |-> "sync_application",
       args |-> [name |-> ArgOf("string"), prune |-> FlagArg,
                 dry_run |-> FlagArg, revision |-> ArgOf("string")],
       required |-> {"name"}],
      [name |-> "get_application_manifests",
       args |-> [name |-> ArgOf("string")], required |-> {"name"}],
      [name |-> "get_sync_history",
       args |-> [name |-> ArgOf("string")], required |-> {"name"}],
      [name |-> "rollback_application",
       args |-> [name |-> ArgOf("string"), revision |-> ArgOf("string")],
       required |-> {"name", "revision"}],
      [name |-> "list_projects", args |-> <<>>, required |-> {}]>>

\* The same of a sequence of tool descriptors.
CatalogOf(tools) ==
    [i \in 1..Len(tools) |->
        [name |-> tools[i].name,
         args |-> [a \in DOMAIN tools[i].inputSchema.properties |->
                     [type |-> tools[i].inputSchema.properties[a].type,
                      default |->
                        IF "default" \in DOMAIN tools[i].inputSchema.properties[a]
                        THEN <<tools[i].inputSchema.properties[a].default>>
                        ELSE <<>>]],
         required |->
            IF "required" \in DOMAIN tools[i].inputSchema
            THEN {tools[i].inputSchema.required[j] :
                    j \in 1..Len(tools[i].inputSchema.required)}
            ELSE {}]]

\* `last` shows a tools/list served over HTTP.
HttpToolsList ==
    /\ last.op = "mcp_endpoint"
    /\ last.req.t = "obj"
    /\ "method" \in DOMAIN last.req.v
    /\ last.req.v["method"] = Str("tools/list")

C10_SameCatalog ==
    /\ last.op = "list_tools" =>
          /\ last.res.ok
          /\ CatalogOf(last.res.val) = ExpectedCatalog
          /\ CatalogOf(last.res.val) = CatalogOf(list_tools_impl)
    /\ HttpToolsList =>
          /\ last.res.ok
          /\ IsResultEnvelope(last.res.val)
          /\ DOMAIN last.res.val.result = {"tools"}
          /\ CatalogOf(last.res.val.result.tools) = ExpectedCatalog
          /\ CatalogOf(last.res.val.result.tools) = CatalogOf(list_tools)

\* The HTTP transport has listed its seven tools, once the stdio transport
\* served too.
C10_Witness ==
    /\ HttpToolsList
    /\ stdio_pc = "serving"
    /\ last.res.ok
    /\ Len(last.res.val.result.tools) = 7
    /\ last.res.val.result.tools[6].name = "rollback_application"

---------------------------------------------------------------------------
(* C11.  Every tool call sends at most one request to the remote           *)
(* controller, and exactly one when it names a tool of the catalog and its *)
(* argument mapping holds every required argument.  A remote call that     *)
(* fails is not tried again: the answer reports the failure of the one     *)
(* request sent.                                                           *)

C11_AtMostOneRequest ==
    /\ last # Idle => Len(last.sent) <= 1
    /\ /\ ServedCall
       /\ CallName \in {Str(n) : n \in CatalogNames}
       /\ CallArgs.t = "obj"
       /\ ~MissingRequired
       => Len(last.sent) = 1
    /\ ServedCall /\ last.sent # <<>> /\ RemoteFailed =>
          /\ SingleBlock
          /\ Blocks[1].text
               = "Error: " \o client_request(CallClient, last.sent[1].method,
                                             last.sent[1].path,
                                             last.sent[1].params,
                                             last.sent[1].json,
                                             last.outcome).res.msg

\* A rollback the remote could not be reached for was answered after its
\* one request.
C11_Witness ==
    /\ ServedCall
    /\ CallName = Str("rollback_application")
    /\ last.outcome = ConnectFailure
    /\ Len(last.sent) = 1
    /\ last.sent[1].path = "/applications/foo/rollback"
    /\ SingleBlock
    /\ Blocks[1].text = "Error: All connection attempts failed"

---------------------------------------------------------------------------
(* C12.  In the HTTP transport the client is constructed at most once,     *)
(* whatever the order of the startup hook and the tool calls: once the     *)
(* global argocd_client is set no step replaces or resets it, get_client   *)
(* returns it without constructing, and its configuration stays the one    *)
(* read from the environment.  get_client has no await, so each of its     *)
(* runs is one step of the event loop.                                     *)

ClientKept ==
    /\ argocd_client # Null => argocd_client' = argocd_client
    /\ constructed' <= 1
    /\ argocd_client' # Null =>
          /\ constructed' = 1
          /\ get_client(argocd_client', env')
               = [res |-> Ok(argocd_client'), client |-> argocd_client',
                  built |-> 0]
          /\ argocd_client'.config = from_env(env).val

C12_ClientSingleton == [][ClientKept]_vars

\* A request served after the startup hook has used the one client
\* constructed.
C12_Witness ==
    /\ constructed = 1
    /\ http_pc = "serving"
    /\ last.op = "mcp_endpoint"
    /\ Len(last.sent) = 1
    /\ last.sent[1].headers = argocd_client.headers
    /\ argocd_client.config.server = "argocd.example.com"

---------------------------------------------------------------------------
(* C13.  The dispatchers of the two transports do the same: for every tool *)
(* name, argument mapping and answer of the remote, call_tool and          *)
(* call_tool_impl, given a client, send the same request (method, path,    *)
(* query, body) and return as many text blocks, with the same texts.       *)

\* What of a request the remote sees besides the client's own settings.
RequestShape(q) ==
    [method |-> q.method, path |-> q.path, params |-> q.params, json |-> q.json]

\* The exchange shown by `last` is what the other dispatcher, whose result
\* is r, does of the same call.
SameAsLast(r) ==
    /\ last.res.ok
    /\ r.res.ok
    /\ Len(r.res.val) = Len(Blocks)
    /\ \A i \in 1..Len(Blocks) :
          /\ r.res.val[i].type = Blocks[i].type
          /\ r.res.val[i].text = Blocks[i].text
    /\ Len(r.sent) = Len(last.sent)
    /\ \A i \in 1..Len(last.sent) :
          RequestShape(r.sent[i]) = RequestShape(last.sent[i])

C13_SameDispatch ==
    /\ last.op = "call_tool" =>
          /\ SameAsLast(call_tool_impl(stdio_client, env, last.req.name,
                                       last.req.arguments, last.outcome))
          /\ SameAsLast(call_tool_impl(Null, env, last.req.name,
                                       last.req.arguments, last.outcome))
    /\ last.op = "call_tool_impl" /\ argocd_client # Null =>
          SameAsLast(call_tool(argocd_client, last.req.name,
                               last.req.arguments, last.outcome))
    /\ last.op = "mcp_endpoint" /\ IsToolsCall(last.req) =>
          SameAsLast(call_tool(argocd_client, CallName, CallArgs,
                               last.outcome))

\* Two projects, one without a name, have been listed over stdio, as the
\* HTTP dispatcher lists them.
C13_Witness ==
    /\ last.op = "call_tool"
    /\ last.req.name = Str("list_projects")
    /\ Len(last.sent) = 1
    /\ last.res.val[1].text = "Found 2 project(s):\n\n- default\n- unknown\n"
    /\ call_tool_impl(stdio_client, env, last.req.name, last.req.arguments,
                      last.outcome).res.val
         = <<[type |-> "text",
              text |-> "Found 2 project(s):\n\n- default\n- unknown\n"]>>

---------------------------------------------------------------------------
(* C14.  Every tools/call is answered in the end.  A call awaiting the     *)
(* remote does not await forever: its request ends, at the latest by the   *)
(* timeout, and the caller then gets the answer to that call, a successful *)
(* envelope; when it is the timeout that ended the request, the answer is  *)
(* one text block beginning "Error: ".                                     *)

\* The step that ends the wait answers the awaited call.
AnswersAwaited ==
    pending # NoCall /\ pending' = NoCall =>
        /\ last'.op = pending.op
        /\ last'.req = pending.req
        /\ last'.sent = pending.sent
        /\ Answered'

\* A call whose request timed out was answered with the error text.
TimedOutText ==
    last # Idle /\ last.outcome = Timeout =>
        /\ SingleBlock
        /\ StartsWith(Blocks[1].text, "Error: ")

C14_EveryCallAnswered ==
    /\ (pending # NoCall) ~> (pending = NoCall /\ last # Idle)
    /\ [][AnswersAwaited]_vars
    /\ []TimedOutText

\* An HTTP call for the manifests of an application has been answered after
\* the timeout of its request.
C14_Witness ==
    /\ pending = NoCall
    /\ last.op = "mcp_endpoint"
    /\ IsToolsCall(last.req)
    /\ CallName = Str("get_application_manifests")
    /\ last.outcome = Timeout
    /\ Len(last.sent) = 1
    /\ last.sent[1].timeout = Num(RequestTimeout)
    /\ SingleBlock
    /\ StartsWith(Blocks[1].text, "Error: ")

---------------------------------------------------------------------------
(* C15.  No request of either transport makes the server send a DELETE or  *)
(* a request to /clusters: delete_application and get_cluster_info of the  *)
(* client are not reached from a tool call, and a tools/call that names    *)
(* one of them is answered "Unknown tool: <name>" with nothing sent to the *)
(* remote controller.                                                      *)

\* The client methods that are no tool.
UnexposedNames == {Str("delete_application"), Str("get_cluster_info")}

C15_NoDeleteNoClusters ==
    /\ last # Idle =>
          \A i \in 1..Len(last.sent) :
             /\ last.sent[i].method # "DELETE"
             /\ last.sent[i].path # "/clusters"
    /\ ServedCall /\ CallName \in UnexposedNames =>
          /\ SingleBlock
          /\ Blocks[1].text = "Unknown tool: " \o CallName.v
          /\ last.sent = <<>>

\* A stdio tools/call for delete_application of "foo" has been answered
\* without a request.
C15_Witness ==
    /\ last.op = "call_tool"
    /\ last.req.name = Str("delete_application")
    /\ last.req.arguments = O1("name", Str("foo"))
    /\ last.outcome = Response(200, EmptyObj)
    /\ last.res = Ok(<<[type |-> "text",
                        text |-> "Unknown tool: delete_application"]>>)
    /\ last.sent = <<>>

=============================================================================
